---- MODULE Spec2Model ----
(***************************************************************************)
(* scripts/check_db.py: a sequential inspector of three SQLite state       *)
(* databases.  The model follows the script statement by statement: the    *)
(* module-level names of the script (c, tables, keys, chat_keys, e) are    *)
(* variables, standard output is the sequence out, the file system and the *)
(* SQLite library are the environment (files, handles, log).               *)
(***************************************************************************)
EXTENDS Integers, Sequences, FiniteSets, TLC

VARIABLES
    pc,         \* position of the script inside the loop body
    cur,        \* index in dbs of the candidate of the current iteration
    c,          \* candidate whose connection the name c is bound to, 0 = unbound
    tables,     \* the name tables (line 18)
    keys,       \* the name keys (lines 22, 29)
    chat_keys,  \* the name chat_keys (lines 24, 31)
    ti,         \* position of the loop "for table in tables" (line 36)
    e,          \* the exception bound by "except Exception as e" (line 46)
    out,        \* lines printed on standard output
    files,      \* the file behind each candidate path
    handles,    \* per candidate: "none", "open" or "closed" database handle
    log         \* calls made to os / sqlite3 and steps that raised

vars == <<pc, cur, c, tables, keys, chat_keys, ti, e, out, files, handles, log>>

-----------------------------------------------------------------------------
(* Bounds of the environment *)

\* Largest number of rows of a key-value table (one more than LIMIT 30).
MaxRows == 31

-----------------------------------------------------------------------------
(* Configuration: the dict dbs, in insertion order (lines 5-9) *)

dbs == <<"Trae CN", "Trae", "Windsurf">>

Candidates == 1..Len(dbs)

\* The two table names the script special-cases (lines 21, 28, 37).
SpecialNames == {"ItemTable", "cursorDiskKV"}

-----------------------------------------------------------------------------
(* Strings: a Python str is a sequence of one-character strings; a key of  *)
(* another SQLite storage class (NULL -> None) is not a str.               *)

Str(chars) == [str |-> TRUE, chars |-> chars]

NoneKey == [str |-> FALSE, chars |-> <<>>]

UpperCase == <<"A","B","C","D","E","F","G","H","I","J","K","L","M",
               "N","O","P","Q","R","S","T","U","V","W","X","Y","Z">>

LowerCase == <<"a","b","c","d","e","f","g","h","i","j","k","l","m",
               "n","o","p","q","r","s","t","u","v","w","x","y","z">>

LowerChar(ch) ==
    IF \E j \in 1..Len(UpperCase) : UpperCase[j] = ch
    THEN LowerCase[CHOOSE j \in 1..Len(UpperCase) : UpperCase[j] = ch]
    ELSE ch

\* k.lower()
lower(s) == [j \in 1..Len(s) |-> LowerChar(s[j])]

\* sub in s  (Python substring test)
In(sub, s) ==
    \E off \in 0..(Len(s) - Len(sub)) :
        \A j \in 1..Len(sub) : s[off + j] = sub[j]

chat     == <<"c","h","a","t">>
composer == <<"c","o","m","p","o","s","e","r">>
aichat   == <<"a","i","c","h","a","t">>
bubble   == <<"b","u","b","b","l","e">>

\* Line 24, the condition of the ItemTable comprehension (four substrings).
ItemTableMatch(k) ==
    \/ In(chat, lower(k))
    \/ In(composer, lower(k))
    \/ In(aichat, lower(k))
    \/ In(bubble, lower(k))

\* Line 31 with the "chat" test dropped.
cursorDiskKVMatch_NoChat(k) ==
    \/ In(composer, lower(k))
    \/ In(bubble, lower(k))

\* Line 31, the condition of the cursorDiskKV comprehension (three substrings).
cursorDiskKVMatch(k) ==
    \/ In(composer, lower(k))
    \/ In(bubble, lower(k))
    \/ In(chat, lower(k))

\* Line 24: chat_keys = [k for k in keys if ...], in order.
ItemTableChatKeys(ks) ==
    LET Test(k) == ItemTableMatch(k.chars) IN SelectSeq(ks, Test)

\* Line 31: chat_keys = [k for k in keys if ...], in order.
cursorDiskKVChatKeys(ks) ==
    LET Test(k) == cursorDiskKVMatch(k.chars) IN SelectSeq(ks, Test)

\* k.lower() raises AttributeError on the first key that is not a str.
AllStr(ks) == \A j \in 1..Len(ks) : ks[j].str

Min(a, b) == IF a < b THEN a ELSE b

\* s[:n]
Slice(s, n) == SubSeq(s, 1, Min(n, Len(s)))

-----------------------------------------------------------------------------
(* The environment: files and the tables of a database *)

\* Keys the fixtures store, as the inspected applications would.
Pool == <<
    Str(<<"M","y","C","h","a","t","S","e","s","s","i","o","n">>),
    Str(<<"s","e","t","t","i","n","g","s">>),
    Str(<<"A","I","C","h","a","t">>),
    Str(<<"C","o","m","p","o","s","e","r">>),
    Str(<<"b","u","b","b","l","e","I","d">>),
    Str(<<"c","h","a",".","t">>),
    Str(<<"t","h","e","m","e">>) >>

\* A table: its name, whether it has a column "key", its rows (row j holds
\* key Pool[start + (j-1)*stride], or None at row badAt), its columns in schema
\* order, and whether COUNT(*) or PRAGMA table_info fail on it.
Table(name, hasKey, nrows, start, stride, badAt, cols, countErr, infoErr) ==
    [name |-> name, hasKey |-> hasKey, nrows |-> nrows, start |-> start,
     stride |-> stride, badAt |-> badAt, cols |-> cols,
     countErr |-> countErr, infoErr |-> infoErr]

KeyValue(name, nrows, start, stride, badAt) ==
    Table(name, TRUE, nrows, start, stride, badAt, <<"key", "value">>, FALSE, FALSE)

NoKeyColumn(name) ==
    Table(name, FALSE, 2, 0, 1, 0, <<"id", "data">>, FALSE, FALSE)

Generic(name, nrows, countErr, infoErr) ==
    Table(name, FALSE, nrows, 0, 1, 0, <<"id", name>>, countErr, infoErr)

KeyAt(t, j) ==
    IF j = t.badAt THEN NoneKey
    ELSE Pool[((t.start + (j - 1) * t.stride) % Len(Pool)) + 1]

\* The keys of the rows of t, in the order the storage engine returns them.
StoredKeys(t) == [j \in 1..t.nrows |-> KeyAt(t, j)]

Absent == [exists |-> FALSE, openable |-> FALSE, catalogOK |-> FALSE, tables |-> <<>>]

\* A path sqlite3 cannot open (a directory, no permission).
Unopenable == [exists |-> TRUE, openable |-> FALSE, catalogOK |-> FALSE, tables |-> <<>>]

\* A file that is not a database: connect succeeds, the first query fails.
NotADatabase == [exists |-> TRUE, openable |-> TRUE, catalogOK |-> FALSE, tables |-> <<>>]

Db(ts) == [exists |-> TRUE, openable |-> TRUE, catalogOK |-> TRUE, tables |-> ts]

RowCounts == {0, 15, 30, MaxRows}

\* A database with both special-cased tables between generic ones; the name
\* of the first does not survive the quoting of line 39.
Mixed(it, kv) ==
    Db(<<Generic("a]b", 1, TRUE, FALSE), it, kv, Generic("meta", 2, FALSE, FALSE)>>)

FileKinds ==
    {Absent, Unopenable, NotADatabase, Db(<<>>)}
    \cup { Db(<<KeyValue("ItemTable", n, n % Len(Pool), 1, 0)>>) : n \in RowCounts }
    \cup { Mixed(KeyValue("ItemTable", 16, 1, 2, 0), kv) :
             kv \in { KeyValue("cursorDiskKV", MaxRows, 3, 1, 0),
                      NoKeyColumn("cursorDiskKV"),
                      KeyValue("cursorDiskKV", 2, 1, 5, 1) } }
    \cup { Mixed(it, KeyValue("cursorDiskKV", 1, 4, 1, 0)) :
             it \in { NoKeyColumn("ItemTable"),
                      KeyValue("ItemTable", MaxRows, 0, 1, 16) } }
    \cup { Db(<<g1, Generic("g2", 1, FALSE, FALSE)>>) :
             g1 \in { Generic("g1", 0, FALSE, FALSE), Generic("g1", 2, FALSE, TRUE) } }

TableOf(f, name) == f.tables[CHOOSE j \in 1..Len(f.tables) : f.tables[j].name = name]

-----------------------------------------------------------------------------
(* os and sqlite3, as the script calls them *)

\* os.path.exists(path)
exists(f) == f.exists

\* sqlite3.connect(path): the default mode, read-write-create.
ConnectMode_rwc == "rwc"

\* Line 17: the mode of the URI "file:{path}?mode=ro".
ConnectMode == "ro"

\* Whether sqlite3.connect succeeds on file f in the given mode.
CanOpen(mode, f) ==
    IF mode = "ro" THEN f.exists /\ f.openable
    ELSE (~f.exists) \/ f.openable

\* The file after sqlite3.connect: only a creating mode makes an absent file.
AfterOpen(mode, f) ==
    IF mode = "rwc" /\ ~f.exists THEN Db(<<>>) ELSE f

\* Rows of SELECT name FROM sqlite_master WHERE type='table'.
SelectTableNames(f) == [j \in 1..Len(f.tables) |-> <<f.tables[j].name>>]

\* The query of lines 22 and 29 without its LIMIT.
SelectKey_NoLimit(t, limit) == [j \in 1..t.nrows |-> <<KeyAt(t, j)>>]

\* Rows of SELECT key FROM t LIMIT limit.
SelectKey(t, limit) == [j \in 1..Min(limit, t.nrows) |-> <<KeyAt(t, j)>>]

\* Rows of PRAGMA table_info([t]): (cid, name).
TableInfo(t) == [j \in 1..Len(t.cols) |-> <<j - 1, t.cols[j]>>]

\* [r[0] for r in rows]
Column0(rows) == [j \in 1..Len(rows) |-> rows[j][1]]

\* [d[1] for d in rows]
Column1(rows) == [j \in 1..Len(rows) |-> rows[j][2]]

-----------------------------------------------------------------------------
(* Output lines, calls and exceptions *)

Line(cand, kind, name, n, items) ==
    [cand |-> cand, kind |-> kind, name |-> name, n |-> n, items |-> items]

Call(cand, op, name, ok) == [cand |-> cand, op |-> op, name |-> name, ok |-> ok]

Exc(cls, msg) == [cls |-> cls, msg |-> msg]

NoExc == Exc("", "")

\* The classes the script can meet; all derive from Exception.
ExceptionClasses == {"sqlite3.OperationalError", "sqlite3.DatabaseError", "AttributeError"}

\* "except sqlite3.Error as e": a handler narrower than line 46.
OuterCatches_SqliteOnly(cls) == cls \in {"sqlite3.OperationalError", "sqlite3.DatabaseError"}

\* Line 46: except Exception as e.
OuterCatches(cls) == cls \in ExceptionClasses

\* No try around the body of the table loop.
InnerCatches_Nothing(cls) == FALSE

\* Lines 43-44: a bare except.
InnerCatches(cls) == TRUE

\* count > 0 written as count >= 0.
ReportsTable_Always(count) == count >= 0

\* Line 40: if count > 0.
ReportsTable(count) == count > 0

-----------------------------------------------------------------------------
(* The script *)

Init ==
    /\ pc = "header"
    /\ cur = 1
    /\ c = 0
    /\ tables = <<>>
    /\ keys = <<>>
    /\ chat_keys = <<>>
    /\ ti = 0
    /\ e = NoExc
    /\ out = <<>>
    /\ files \in [Candidates -> FileKinds]
    /\ handles = [i \in Candidates |-> "none"]
    /\ log = <<>>

\* The end of one iteration of "for name, path in dbs.items()" (line 11).
NextCandidate ==
    IF cur < Len(dbs)
    THEN cur' = cur + 1 /\ pc' = "header"
    ELSE cur' = cur /\ pc' = "done"

\* An exception of class cls leaves the try block of lines 16-45: line 46
\* binds it, or it leaves the loop and ends the script with a traceback.
Raise(cls, msg) ==
    /\ e' = IF OuterCatches(cls) THEN Exc(cls, msg) ELSE e
    /\ pc' = IF OuterCatches(cls) THEN "except" ELSE "crashed"
    /\ cur' = cur

\* Where the script goes after the two special-cased blocks: line 36.
EnterScan(ts) ==
    /\ ti' = 1
    /\ pc' = IF Len(ts) = 0 THEN "close" ELSE "scan"

\* Line 12.
PrintHeader ==
    /\ pc = "header"
    /\ out' = Append(out, Line(cur, "header", dbs[cur], 0, <<>>))
    /\ pc' = "exists"
    /\ UNCHANGED <<cur, c, tables, keys, chat_keys, ti, e, files, handles, log>>

\* Lines 13-15 without the continue: the script goes on to connect.
CheckExists_NoContinue ==
    /\ pc = "exists"
    /\ log' = Append(log, Call(cur, "exists", "", exists(files[cur])))
    /\ out' = IF exists(files[cur]) THEN out
              ELSE Append(out, Line(cur, "notfound", "", 0, <<>>))
    /\ pc' = "connect"
    /\ UNCHANGED <<cur, c, tables, keys, chat_keys, ti, e, files, handles>>

\* Lines 13-15.
CheckExists ==
    /\ pc = "exists"
    /\ log' = Append(log, Call(cur, "exists", "", exists(files[cur])))
    /\ IF exists(files[cur])
       THEN /\ pc' = "connect"
            /\ UNCHANGED <<cur, out>>
       ELSE /\ out' = Append(out, Line(cur, "notfound", "", 0, <<>>))
            /\ NextCandidate
    /\ UNCHANGED <<c, tables, keys, chat_keys, ti, e, files, handles>>

\* Line 17.  Rebinding c drops the last reference to the connection c named
\* before; whether its handle is released then is left to the interpreter.
Connect ==
    /\ pc = "connect"
    /\ files' = [files EXCEPT ![cur] = AfterOpen(ConnectMode, files[cur])]
    /\ log' = Append(log, Call(cur, "connect", ConnectMode, CanOpen(ConnectMode, files[cur])))
    /\ IF CanOpen(ConnectMode, files[cur])
       THEN /\ \E freed \in BOOLEAN :
                 handles' = [i \in Candidates |->
                     IF i = cur THEN "open"
                     ELSE IF i = c /\ handles[i] = "open" /\ freed THEN "closed"
                     ELSE handles[i]]
            /\ c' = cur
            /\ pc' = "tables"
            /\ UNCHANGED <<cur, e>>
       ELSE /\ Raise("sqlite3.OperationalError", "unable to open database file")
            /\ UNCHANGED <<c, handles>>
    /\ UNCHANGED <<tables, keys, chat_keys, ti, out>>

\* Lines 18-19.
ListTables ==
    /\ pc = "tables"
    /\ log' = Append(log, Call(cur, "sqlite_master", "", files[cur].catalogOK))
    /\ IF files[cur].catalogOK
       THEN /\ tables' = Column0(SelectTableNames(files[cur]))
            /\ out' = Append(out, Line(cur, "tables", "", Len(tables'), tables'))
            /\ pc' = "item"
            /\ UNCHANGED <<cur, e>>
       ELSE /\ Raise("sqlite3.DatabaseError", "file is not a database")
            /\ UNCHANGED <<tables, out>>
    /\ UNCHANGED <<c, keys, chat_keys, ti, files, handles>>

\* name in tables  (lines 21 and 28)
InTables(name) == \E j \in 1..Len(tables) : tables[j] = name

\* Lines 21-23 with the query failure dropped silently.
SampleItemTable_Swallow ==
    /\ pc = "item"
    /\ IF ~InTables("ItemTable")
       THEN /\ pc' = "kv"
            /\ UNCHANGED <<cur, e, keys, out, log>>
       ELSE LET t == TableOf(files[cur], "ItemTable") IN
            /\ log' = Append(log, Call(cur, "select_key", "ItemTable", t.hasKey))
            /\ IF t.hasKey
               THEN /\ keys' = Column0(SelectKey(t, 30))
                    /\ out' = Append(out, Line(cur, "keys", "ItemTable",
                                               Len(keys'), Slice(keys', 15)))
                    /\ pc' = "item_filter"
                    /\ UNCHANGED <<cur, e>>
               ELSE /\ pc' = "kv"
                    /\ UNCHANGED <<cur, e, keys, out>>
    /\ UNCHANGED <<c, tables, chat_keys, ti, files, handles>>

\* Lines 21-23.
SampleItemTable ==
    /\ pc = "item"
    /\ IF ~InTables("ItemTable")
       THEN /\ pc' = "kv"
            /\ UNCHANGED <<cur, e, keys, out, log>>
       ELSE LET t == TableOf(files[cur], "ItemTable") IN
            /\ log' = Append(log, Call(cur, "select_key", "ItemTable", t.hasKey))
            /\ IF t.hasKey
               THEN /\ keys' = Column0(SelectKey(t, 30))
                    /\ out' = Append(out, Line(cur, "keys", "ItemTable",
                                               Len(keys'), Slice(keys', 15)))
                    /\ pc' = "item_filter"
                    /\ UNCHANGED <<cur, e>>
               ELSE /\ Raise("sqlite3.OperationalError", "no such column: key")
                    /\ UNCHANGED <<keys, out>>
    /\ UNCHANGED <<c, tables, chat_keys, ti, files, handles>>

\* Lines 24-26.
FilterItemTable ==
    /\ pc = "item_filter"
    /\ log' = Append(log, Call(cur, "lower", "ItemTable", AllStr(keys)))
    /\ IF AllStr(keys)
       THEN /\ chat_keys' = ItemTableChatKeys(keys)
            /\ out' = IF chat_keys' # <<>>
                      THEN Append(out, Line(cur, "chat", "ItemTable",
                                            Len(chat_keys'), chat_keys'))
                      ELSE out
            /\ pc' = "kv"
            /\ UNCHANGED <<cur, e>>
       ELSE /\ Raise("AttributeError", "'NoneType' object has no attribute 'lower'")
            /\ UNCHANGED <<chat_keys, out>>
    /\ UNCHANGED <<c, tables, keys, ti, files, handles>>

\* Lines 28-30.
SampleCursorDiskKV ==
    /\ pc = "kv"
    /\ IF ~InTables("cursorDiskKV")
       THEN /\ EnterScan(tables)
            /\ UNCHANGED <<cur, e, keys, out, log>>
       ELSE LET t == TableOf(files[cur], "cursorDiskKV") IN
            /\ log' = Append(log, Call(cur, "select_key", "cursorDiskKV", t.hasKey))
            /\ IF t.hasKey
               THEN /\ keys' = Column0(SelectKey(t, 30))
                    /\ out' = Append(out, Line(cur, "keys", "cursorDiskKV",
                                               Len(keys'), Slice(keys', 15)))
                    /\ pc' = "kv_filter"
                    /\ UNCHANGED <<cur, e, ti>>
               ELSE /\ Raise("sqlite3.OperationalError", "no such column: key")
                    /\ UNCHANGED <<keys, out, ti>>
    /\ UNCHANGED <<c, tables, chat_keys, files, handles>>

\* Lines 31-33.
FilterCursorDiskKV ==
    /\ pc = "kv_filter"
    /\ log' = Append(log, Call(cur, "lower", "cursorDiskKV", AllStr(keys)))
    /\ IF AllStr(keys)
       THEN /\ chat_keys' = cursorDiskKVChatKeys(keys)
            /\ out' = IF chat_keys' # <<>>
                      THEN Append(out, Line(cur, "chat", "cursorDiskKV",
                                            Len(chat_keys'), chat_keys'))
                      ELSE out
            /\ EnterScan(tables)
            /\ UNCHANGED <<cur, e>>
       ELSE /\ Raise("AttributeError", "'NoneType' object has no attribute 'lower'")
            /\ UNCHANGED <<chat_keys, out, ti>>
    /\ UNCHANGED <<c, tables, keys, files, handles>>

\* Lines 38-44 for one generic table t of candidate i: the lines printed, the
\* queries made, and the exception the inner handler did not catch.
Describe(i, t) ==
    IF t.countErr
    THEN [lines |-> <<>>,
          calls |-> <<Call(i, "count", t.name, FALSE)>>,
          exc   |-> IF InnerCatches("sqlite3.OperationalError") THEN NoExc
                    ELSE Exc("sqlite3.OperationalError", "unrecognized token")]
    ELSE IF ~ReportsTable(t.nrows)
    THEN [lines |-> <<>>,
          calls |-> <<Call(i, "count", t.name, TRUE)>>,
          exc   |-> NoExc]
    ELSE IF t.infoErr
    THEN [lines |-> <<>>,
          calls |-> <<Call(i, "count", t.name, TRUE), Call(i, "table_info", t.name, FALSE)>>,
          exc   |-> IF InnerCatches("sqlite3.OperationalError") THEN NoExc
                    ELSE Exc("sqlite3.OperationalError", "database is locked")]
    ELSE [lines |-> <<Line(i, "generic", t.name, t.nrows, Column1(TableInfo(t)))>>,
          calls |-> <<Call(i, "count", t.name, TRUE), Call(i, "table_info", t.name, TRUE)>>,
          exc   |-> NoExc]

\* Lines 36-44: one iteration of "for table in tables".
DescribeTable ==
    /\ pc = "scan"
    /\ ti <= Len(tables)
    /\ IF tables[ti] \in SpecialNames
       THEN /\ ti' = ti + 1
            /\ pc' = IF ti + 1 > Len(tables) THEN "close" ELSE "scan"
            /\ UNCHANGED <<cur, e, out, log>>
       ELSE LET d == Describe(cur, TableOf(files[cur], tables[ti])) IN
            /\ out' = out \o d.lines
            /\ log' = log \o d.calls
            /\ IF d.exc = NoExc
               THEN /\ ti' = ti + 1
                    /\ pc' = IF ti + 1 > Len(tables) THEN "close" ELSE "scan"
                    /\ UNCHANGED <<cur, e>>
               ELSE /\ Raise(d.exc.cls, d.exc.msg)
                    /\ UNCHANGED ti
    /\ UNCHANGED <<c, tables, keys, chat_keys, files, handles>>

\* Line 45.
Close ==
    /\ pc = "close"
    /\ handles' = [handles EXCEPT ![c] = "closed"]
    /\ log' = Append(log, Call(cur, "close", "", TRUE))
    /\ NextCandidate
    /\ UNCHANGED <<c, tables, keys, chat_keys, ti, e, out, files>>

\* Lines 46-47 followed by a break out of the loop.
HandleError_Break ==
    /\ pc = "except"
    /\ out' = Append(out, Line(cur, "error", e.msg, 0, <<>>))
    /\ e' = NoExc
    /\ cur' = cur
    /\ pc' = "done"
    /\ UNCHANGED <<c, tables, keys, chat_keys, ti, files, handles, log>>

\* Lines 46-47; e is unbound again when the handler ends.
HandleError ==
    /\ pc = "except"
    /\ out' = Append(out, Line(cur, "error", e.msg, 0, <<>>))
    /\ e' = NoExc
    /\ NextCandidate
    /\ UNCHANGED <<c, tables, keys, chat_keys, ti, files, handles, log>>

Next ==
    \/ PrintHeader
    \/ CheckExists
    \/ Connect
    \/ ListTables
    \/ SampleItemTable
    \/ FilterItemTable
    \/ SampleCursorDiskKV
    \/ FilterCursorDiskKV
    \/ DescribeTable
    \/ Close
    \/ HandleError

Spec == Init /\ [][Next]_vars

\* The interpreter runs the script to its end: a statement that can run, runs.
FairSpec == Spec /\ WF_vars(Next)

-----------------------------------------------------------------------------
(* Vocabulary of the properties *)

\* Candidate i has been processed and the loop has moved past it.
Finished(i) == i < cur \/ pc = "done"

LinesOf(i) == LET Test(l) == l.cand = i IN SelectSeq(out, Test)

\* The lines of kind kind that candidate i printed about table name.
LinesAbout(i, kind, name) ==
    LET Test(l) == l.cand = i /\ l.kind = kind /\ l.name = name IN SelectSeq(out, Test)

KindCount(i, kind) ==
    LET Test(l) == l.cand = i /\ l.kind = kind IN Len(SelectSeq(out, Test))

\* The candidates whose header was printed, in print order.
HeaderCands ==
    LET Test(l) == l.kind = "header"
        hs == SelectSeq(out, Test)
    IN  [j \in 1..Len(hs) |-> hs[j].cand]

Called(i, ops, ok) ==
    \E k \in 1..Len(log) : log[k].cand = i /\ log[k].op \in ops /\ log[k].ok = ok

CalledOn(i, ops, name, ok) ==
    \E k \in 1..Len(log) :
        log[k].cand = i /\ log[k].op \in ops /\ log[k].name = name /\ log[k].ok = ok

\* A step of the candidate as a whole raised: connect, table enumeration,
\* key sampling or key filtering.
CandidateSteps == {"connect", "sqlite_master", "select_key", "lower"}

Failed(i) == Called(i, CandidateSteps, FALSE)

\* The state of candidate i in the state machine of the design:
\* NOT_STARTED -> CHECK_EXISTS -> (MISSING | OPENED -> LIST_TABLES ->
\* INSPECT* -> CLOSED), and ERROR for a candidate left through the handler.
CandState(i) ==
    IF Finished(i)
    THEN IF KindCount(i, "notfound") > 0 THEN "MISSING"
         ELSE IF Called(i, {"close"}, TRUE) THEN "CLOSED"
         ELSE "ERROR"
    ELSE IF i > cur \/ pc = "header" THEN "NOT_STARTED"
    ELSE IF pc \in {"exists", "connect"} THEN "CHECK_EXISTS"
    ELSE IF pc = "tables" THEN "OPENED"
    ELSE IF pc = "item" THEN "LIST_TABLES"
    ELSE IF pc \in {"item_filter", "kv", "kv_filter", "scan", "close"} THEN "INSPECT"
    ELSE "FAILING"

-----------------------------------------------------------------------------
(* C1 *)

\* C1: the handle opened for a candidate is released before the next
\* candidate starts being processed, on every path, an error after the open
\* included: no candidate the loop has moved past still has an open handle.
C1_HandleReleasedBeforeNext ==
    \A i \in Candidates : Finished(i) => handles[i] # "open"

-----------------------------------------------------------------------------
(* C2 *)

\* C2: errors never cross a candidate boundary.  The script never ends with
\* an uncaught exception, and a raised exception is always handled; a
\* candidate one of whose steps (connect, table enumeration, key sampling)
\* failed has exactly one ERROR line, its last line; the headers show every
\* candidate attempted, in configured order, when the run ends.
C2_ErrorsStayInCandidate ==
    /\ pc # "crashed"
    /\ pc = "except" => ENABLED HandleError
    /\ \A i \in Candidates :
          /\ KindCount(i, "error") <= 1
          /\ (Failed(i) /\ Finished(i)) =>
                /\ KindCount(i, "error") = 1
                /\ LinesOf(i)[Len(LinesOf(i))].kind = "error"
    /\ HeaderCands = [j \in 1..Len(HeaderCands) |-> j]
    /\ pc = "done" => Len(HeaderCands) = Len(dbs)

\* A failed candidate that is not the last one, and the run over.
C2_Witness ==
    /\ pc = "done"
    /\ \E i \in Candidates : i < Len(dbs) /\ Failed(i) /\ KindCount(i + 1, "header") = 1

-----------------------------------------------------------------------------
(* C3 *)

\* C3: a candidate whose path does not exist prints its header and
\* "FILE NOT FOUND" and nothing else, never has a connection attempted or a
\* handle opened, and the script goes from the check straight to the next
\* candidate.
C3_MissingFile ==
    \A i \in Candidates :
        (~files[i].exists /\ i <= cur) =>
            /\ LinesOf(i) \in { <<>>,
                                <<Line(i, "header", dbs[i], 0, <<>>)>>,
                                <<Line(i, "header", dbs[i], 0, <<>>),
                                  Line(i, "notfound", "", 0, <<>>)>> }
            /\ Finished(i) => Len(LinesOf(i)) = 2
            /\ ~Called(i, {"connect"}, TRUE) /\ ~Called(i, {"connect"}, FALSE)
            /\ handles[i] = "none"
            /\ ~Finished(i) => pc \in {"header", "exists"}

\* A missing candidate behind the loop, the next one begun.
C3_Witness ==
    \E i \in Candidates :
        /\ ~files[i].exists /\ i < cur
        /\ KindCount(i, "notfound") = 1
        /\ KindCount(i + 1, "header") = 1

-----------------------------------------------------------------------------
(* C4 *)

\* C4 as stated: when the run is over every candidate is MISSING or CLOSED.
C4_OnlyMissingOrClosed ==
    pc = "done" => \A i \in Candidates : CandState(i) \in {"MISSING", "CLOSED"}

\* C4 (amended): the run terminates with every candidate in a terminal state,
\* MISSING, CLOSED or ERROR (left through the handler, its connection never
\* opened or never closed), each candidate processed exactly once, in
\* configured order.
C4_Terminates ==
    /\ <>(pc = "done")
    /\ [](pc = "done" =>
            /\ \A i \in Candidates : CandState(i) \in {"MISSING", "CLOSED", "ERROR"}
            /\ HeaderCands = [j \in 1..Len(dbs) |-> j])

\* A finished run with one candidate in each terminal state.
C4_Witness ==
    /\ pc = "done"
    /\ \E i, j, k \in Candidates :
          CandState(i) = "MISSING" /\ CandState(j) = "CLOSED" /\ CandState(k) = "ERROR"

-----------------------------------------------------------------------------
(* C5 *)

GenericNames(f) ==
    LET Test(t) == t.name \notin SpecialNames
        gs == SelectSeq(f.tables, Test)
    IN  [j \in 1..Len(gs) |-> gs[j].name]

\* The tables candidate i ran COUNT(*) on, in order.
Counted(i) ==
    LET Test(k) == k.cand = i /\ k.op = "count"
        cs == SelectSeq(log, Test)
    IN  [j \in 1..Len(cs) |-> cs[j].name]

\* C5: a COUNT(*) or table_info failure on a generic table is swallowed: the
\* table prints no line, the candidate prints no ERROR line and stays in the
\* scan, every generic table of the catalog is still inspected in catalog
\* order, and the connection is closed.
C5_GenericFailureSwallowed ==
    \A k \in 1..Len(log) :
        (log[k].op \in {"count", "table_info"} /\ ~log[k].ok) =>
            LET i == log[k].cand IN
            /\ LinesAbout(i, "generic", log[k].name) = <<>>
            /\ KindCount(i, "error") = 0
            /\ ~Finished(i) => pc \in {"scan", "close"}
            /\ Finished(i) =>
                  /\ Counted(i) = GenericNames(files[i])
                  /\ handles[i] = "closed"

\* A swallowed failure on a table that is not the last generic one, its
\* candidate finished.
C5_Witness ==
    \E k \in 1..Len(log) :
        /\ log[k].op = "count" /\ ~log[k].ok
        /\ Finished(log[k].cand)
        /\ Len(GenericNames(files[log[k].cand])) > 1
        /\ GenericNames(files[log[k].cand])[1] = log[k].name

-----------------------------------------------------------------------------
(* C6 *)

\* C6: every "keys" line of a special-cased table carries the count
\* min(30, rows of the table) and shows the first min(15, count) keys in
\* query order, never more than 15.
C6_KeyCountAndSample ==
    \A p \in 1..Len(out) :
        out[p].kind = "keys" =>
            LET t == TableOf(files[out[p].cand], out[p].name) IN
            /\ out[p].name \in SpecialNames
            /\ out[p].n = Min(30, t.nrows)
            /\ out[p].items = SubSeq(StoredKeys(t), 1, Min(15, out[p].n))
            /\ Len(out[p].items) <= 15

\* Both special-cased tables sampled from more than 30 rows.
C6_Witness ==
    \A name \in SpecialNames :
        \E p \in 1..Len(out) :
            /\ out[p].kind = "keys" /\ out[p].name = name
            /\ TableOf(files[out[p].cand], name).nrows > 30

-----------------------------------------------------------------------------
(* C7 *)

\* A key is chat-like: one of the four substrings occurs in it, case ignored.
ChatLike(k) ==
    LET folded == [j \in 1..Len(k) |-> LowerChar(k[j])] IN
    \E s \in {chat, composer, aichat, bubble} :
        \E off \in 0..(Len(k) - Len(s)) :
            \A j \in 1..Len(s) : folded[off + j] = s[j]

\* The chat-like ones among the first 30 keys of table t, in order.
ChatLikeSample(t) ==
    LET Test(k) == ChatLike(k.chars)
    IN  SelectSeq(SubSeq(StoredKeys(t), 1, Min(30, t.nrows)), Test)

\* The two written filters select the same keys.
FiltersAgree ==
    \A j \in 1..Len(Pool) : ItemTableMatch(Pool[j].chars) = cursorDiskKVMatch(Pool[j].chars)

\* C7: when the filter of a special-cased table has run, the line after the
\* table's "keys" line is its "Chat-related keys" line exactly when some
\* sampled key (of all up to 30) is chat-like, and it lists those keys in
\* sample order; a chat line appears nowhere else; the four-substring and the
\* three-substring filter agree on every key.
C7_ChatSubset ==
    /\ FiltersAgree
    /\ \A q \in 1..Len(out) :
          out[q].kind = "chat" =>
              /\ q > 1
              /\ out[q - 1].kind = "keys"
              /\ out[q - 1].cand = out[q].cand
              /\ out[q - 1].name = out[q].name
              /\ CalledOn(out[q].cand, {"lower"}, out[q].name, TRUE)
    /\ (Len(log) > 0 /\ log[Len(log)].op = "lower" /\ log[Len(log)].ok) =>
          LET name   == log[Len(log)].name
              expect == ChatLikeSample(TableOf(files[cur], name))
              last   == out[Len(out)]
          IN  IF expect = <<>>
              THEN last = Line(cur, "keys", name, last.n, last.items)
              ELSE last = Line(cur, "chat", name, Len(expect), expect)

\* A chat line of cursorDiskKV with more keys than the 15 displayed.
C7_Witness ==
    \E q \in 1..Len(out) :
        out[q].kind = "chat" /\ out[q].name = "cursorDiskKV" /\ out[q].n > 15

-----------------------------------------------------------------------------
(* C8 *)

Opened(i) == Called(i, {"connect"}, TRUE)

\* Describing table name of candidate i raised.
Swallowed(i, name) == CalledOn(i, {"count", "table_info"}, name, FALSE)

\* The one line of a reported generic table.
GenericLine(i, t) == Line(i, "generic", t.name, t.nrows, t.cols)

\* C8 as stated: in a successfully opened candidate a generic table is
\* reported if and only if it has at least one row.
C8_ReportedIffNonEmpty ==
    \A i \in Candidates :
        (Finished(i) /\ Opened(i)) =>
            \A j \in 1..Len(files[i].tables) :
                LET t == files[i].tables[j] IN
                IF t.name \in SpecialNames
                THEN LinesAbout(i, "generic", t.name) = <<>>
                ELSE IF t.nrows >= 1
                THEN LinesAbout(i, "generic", t.name) = <<GenericLine(i, t)>>
                ELSE LinesAbout(i, "generic", t.name) = <<>>

\* C8 (amended): in a candidate processed up to its close, a generic table
\* is reported if and only if it has at least one row and describing it did
\* not raise; then by exactly one line with its exact row count and its
\* columns in schema order.  A special-named table never has such a line.
C8_ReportedIffNonEmptyAndDescribed ==
    \A i \in Candidates :
        \A j \in 1..Len(files[i].tables) :
            LET t == files[i].tables[j] IN
            IF t.name \in SpecialNames
            THEN LinesAbout(i, "generic", t.name) = <<>>
            ELSE (Finished(i) /\ CandState(i) = "CLOSED") =>
                    IF t.nrows >= 1 /\ ~Swallowed(i, t.name)
                    THEN LinesAbout(i, "generic", t.name) = <<GenericLine(i, t)>>
                    ELSE LinesAbout(i, "generic", t.name) = <<>>

\* A closed candidate with a reported table, an empty one and one whose
\* description raised although it has rows.
C8_Witness ==
    \E i, j \in Candidates :
        /\ CandState(i) = "CLOSED" /\ CandState(j) = "CLOSED"
        /\ \E a, b \in 1..Len(files[i].tables) :
              /\ files[i].tables[a].nrows >= 1
              /\ Swallowed(i, files[i].tables[a].name)
              /\ LinesAbout(i, "generic", files[i].tables[b].name) # <<>>
        /\ \E a \in 1..Len(files[j].tables) :
              /\ files[j].tables[a].name \notin SpecialNames
              /\ files[j].tables[a].nrows = 0

-----------------------------------------------------------------------------
(* C9 *)

\* C9: no step changes a candidate file; every connect is made in
\* read-only mode, and only on a path that exists.
C9_NothingMutated ==
    /\ [][files' = files]_vars
    /\ [](\A k \in 1..Len(log) :
            log[k].op = "connect" =>
                log[k].name = "ro" /\ files[log[k].cand].exists)

\* The run is over, a connection was made, and an absent file was skipped.
C9_Witness ==
    /\ pc = "done"
    /\ \E i, j \in Candidates :
          /\ Opened(i)
          /\ ~files[j].exists /\ KindCount(j, "notfound") = 1

-----------------------------------------------------------------------------
(* C10 *)

SpecialFailed(i) == Called(i, {"select_key", "lower"}, FALSE)

\* C10: a failure while sampling or filtering the keys of a special-cased
\* table aborts the candidate after its table list was printed: the script is
\* in the handler and then prints one ERROR line, the candidate's last; if
\* the failure was on ItemTable, cursorDiskKV is not sampled; no generic
\* table of the candidate is described or reported.
C10_SpecialFailureAborts ==
    \A i \in Candidates :
        SpecialFailed(i) =>
            /\ KindCount(i, "tables") = 1
            /\ ~Finished(i) => pc = "except"
            /\ Finished(i) =>
                  /\ KindCount(i, "error") = 1
                  /\ LinesOf(i)[Len(LinesOf(i))].kind = "error"
            /\ CalledOn(i, {"select_key", "lower"}, "ItemTable", FALSE) =>
                  /\ ~CalledOn(i, {"select_key"}, "cursorDiskKV", TRUE)
                  /\ ~CalledOn(i, {"select_key"}, "cursorDiskKV", FALSE)
            /\ KindCount(i, "generic") = 0
            /\ Counted(i) = <<>>

\* A candidate aborted on ItemTable that has cursorDiskKV and a generic
\* table with rows.
C10_Witness ==
    \E i \in Candidates :
        /\ Finished(i)
        /\ CalledOn(i, {"select_key", "lower"}, "ItemTable", FALSE)
        /\ \E a, b \in 1..Len(files[i].tables) :
              /\ files[i].tables[a].name = "cursorDiskKV"
              /\ files[i].tables[b].name \notin SpecialNames
              /\ files[i].tables[b].nrows >= 1
              /\ ~files[i].tables[b].countErr

====
